---- MODULE Spec2Model ----
(***************************************************************************)
(* The API server of src/Backend/server.js as a state machine: the         *)
(* relational store (users, models, model_images, editor_uploads), the     *)
(* object store (Cloudinary) and the requests in flight, each at the       *)
(* await it has reached.                                                   *)
(***************************************************************************)
EXTENDS Integers, Sequences, FiniteSets, TLC

\* ----------------------------------------------------------------- bounds
\* Number of files the object store accepts over a whole run.
MaxAssets == 11
\* Number of requests the server processes at the same time.
MaxInFlight == 2

\* Number of videos the editors upload over a whole run.
MaxVideos == 1

\* Number of users rows registration adds over a whole run.
MaxRegistered == 2

\* ------------------------------------------------------ program constants
\* galleryImageFiles.length < 4
GalleryMin == 4
\* maxCount: 8, existingCount + req.files.length > 8
GalleryMax == 8

\* --------------------------------------------------------------- users
\* The users table: rows written by POST /api/auth/register; the role is
\* one of validRoles and never changes afterwards.
Users ==
    { [id |-> 1, role |-> "model"],
      [id |-> 2, role |-> "photographer"],
      [id |-> 3, role |-> "editor"],
      [id |-> 4, role |-> "recruiter"],
      [id |-> 5, role |-> "admin"],
      [id |-> 6, role |-> "editor"] }

UserIds == { u.id : u \in Users }

RoleOf(uid) == (CHOOSE u \in Users : u.id = uid).role

\* What a request carries in its Authorization header: nothing, a token that
\* does not verify, or the token login signed for a user ({id, role}).
\* "malformed" is a header that does not start with 'Bearer '.
Tokens == {"none", "malformed", "bad"} \cup { "u1", "u2", "u3", "u4", "u5", "u6" }

TokenUser(tok) ==
    CASE tok = "u1" -> 1 [] tok = "u2" -> 2 [] tok = "u3" -> 3
      [] tok = "u4" -> 4 [] tok = "u5" -> 5 [] tok = "u6" -> 6 [] OTHER -> 0

\* jwt.sign({ id: user.id, role: user.role }): the role inside the token.
TokenRole(tok) == IF TokenUser(tok) = 0 THEN "none" ELSE RoleOf(TokenUser(tok))

\* ------------------------------------------------------- object store
\* CloudinaryStorage params: every upload is stored in the folder
\* 'modelconnect' under a fresh name; its public_id is "modelconnect/<name>".
\* A fresh name is <<uploader, k>>, the k-th file that user uploaded.
Folder == "modelconnect"

Asset(n, rtype) ==
    [public_id |-> [folder |-> Folder, name |-> n], resource_type |-> rtype]

\* file.path: .../<resource_type>/upload/v1/modelconnect/<name>.<format>
FileUrl(n, rtype) ==
    [resource_type |-> rtype, folder |-> Folder, name |-> n,
     format |-> IF rtype = "video" THEN "mp4" ELSE "jpg"]

\* The asset a URL points at.
AssetOfUrl(url) ==
    [public_id |-> [folder |-> url.folder, name |-> url.name],
     resource_type |-> url.resource_type]

\* The JS null returned when the regex does not match.
NullId == [folder |-> "", name |-> <<0, 0>>]

\* The helper returning the public_id its comment asks for, folder included.
getPublicIdFromUrl_WithFolder(url) ==
    IF url.folder = Folder
    THEN [folder |-> url.folder, name |-> url.name]
    ELSE NullId

\* /\/modelconnect\/([^.]+)/ : match[1] is the text between "/modelconnect/"
\* and the first dot, i.e. the name without its folder.
getPublicIdFromUrl(url) ==
    IF url.folder = Folder
    THEN [folder |-> "", name |-> url.name]
    ELSE NullId

\* cloudinary.uploader.destroy(publicId, {resource_type}): removes the asset
\* with exactly that public_id and resource type; any other id answers
\* { result: 'not found' } and removes nothing.
Destroy(store, publicId, rtype) ==
    { a \in store : ~(a.public_id = publicId /\ a.resource_type = rtype) }

\* for (const file of files) await destroy(getPublicIdFromUrl(file.path))
RECURSIVE DestroyAll(_, _, _)
DestroyAll(store, urls, rtype) ==
    IF urls = {} THEN store
    ELSE LET u == CHOOSE x \in urls : TRUE
         IN  DestroyAll(Destroy(store, getPublicIdFromUrl(u), rtype),
                        urls \ {u}, rtype)

\* ------------------------------------------------------------ requests
NoTx == [models |-> {}, images |-> {}, profiles |-> {},
         delImages |-> {}, delVideos |-> {}]

NoTables == [models |-> {}, images |-> {}, profiles |-> {}]

\* What a handler did with the pool: the connections it acquired and
\* released, and the state of the transaction on its connection.
NoConnection == [acquired |-> 0, released |-> 0, tx |-> "none"]

\* const connection = await db.getConnection()
getConnection(c) == [c EXCEPT !.acquired = @ + 1]
\* await connection.beginTransaction()
beginTransaction(c) == [c EXCEPT !.tx = "open"]
\* await connection.commit()
commit(c) == [c EXCEPT !.tx = "committed"]
\* await connection.rollback()
rollback(c) == [c EXCEPT !.tx = "rolledBack"]
\* finally { connection.release() }: the connection goes back to the pool as
\* it is; the pool does not end a transaction left open on it.
release(c) == [c EXCEPT !.released = @ + 1]

Req(kind, tok, bodyRole, main, video, gallery, fieldsOk, arg) ==
    [kind |-> kind, tok |-> tok, user |-> TokenUser(tok), role |-> TokenRole(tok),
     bodyRole |-> bodyRole, main |-> main, video |-> video, gallery |-> gallery,
     fieldsOk |-> fieldsOk, arg |-> arg,
     pc |-> "start", status |-> 0, modelId |-> 0, count |-> 0, target |-> {},
     failed |-> "none", data |-> {}, tx |-> NoTx, pre |-> NoTables,
     conn |-> NoConnection]

Idle == Req("idle", "none", "none", {}, {}, {}, FALSE, 0)

\* const connection = await db.getConnection();
\* try { await connection.beginTransaction(); ...
Connect(r) == [r EXCEPT !.conn = beginTransaction(getConnection(@))]

\* ... await connection.commit(); res.json(...) } finally { connection.release() }
Committed(r) == [r EXCEPT !.conn = release(commit(@))]

\* ... return res.status(...).json(...) } finally { connection.release() }
Returned(r) == [r EXCEPT !.conn = release(@)]

\* catch (error) { await connection.rollback(); ... } finally
\* { connection.release() }: with outcome "rollback" the rollback rejects and
\* the transaction is still open when the connection is released.
Caught(r, outcome) ==
    [r EXCEPT !.conn = release(IF outcome = "rollback" THEN @ ELSE rollback(@))]

VARIABLES
    users,         \* rows of table users: [id, email, role]
    nextUserId,    \* AUTO_INCREMENT of users
    models,        \* rows of table models: [id, user_id, image, sample_video_url]
    model_images,  \* rows of table model_images: [id, model_id, image_url]
    editor_uploads,\* rows of table editor_uploads: [id, user_id, video_url]
    has_profile,   \* ids of the users rows with has_profile = true
    nextModelId,   \* AUTO_INCREMENT of models
    nextImageId,   \* AUTO_INCREMENT of model_images
    nextVideoId,   \* AUTO_INCREMENT of editor_uploads
    assets,        \* the object store: the assets that exist
    nextAsset,     \* per user, the number of the next file the user uploads
    inflight,      \* the requests being processed, each at its await
    resp,          \* the request answered by the last step (kind "idle": none)
    user,          \* AuthProvider: useState(null) of user (a set, empty for null)
    token,         \* AuthProvider: useState(null) of token
    localStorage,  \* the browser's localStorage: key -> value (a set, empty if absent)
    mounted,       \* AuthProvider: the useEffect of the initial load has run
    requested,     \* the path the router was last asked to render
    location,      \* the router's current path, after the redirects (Navigate)
    page           \* the element the router renders at that path

vars == <<users, nextUserId, models, model_images, editor_uploads, has_profile,
          nextModelId, nextImageId, nextVideoId, assets, nextAsset, inflight, resp,
          user, token, localStorage, mounted, requested, location, page>>

\* The tables the handlers of profiles and videos work on, and the users
\* table that only registration writes.
db == <<users, nextUserId, models, model_images, editor_uploads, has_profile,
        nextModelId, nextImageId, nextVideoId>>

\* The single-page client.
browser == <<user, token, localStorage, mounted, requested, location, page>>

Slots == 1 .. MaxInFlight

\* The email of each registered user.
EmailOf(uid) == <<"e1", "e2", "e3", "e4", "e5", "e6">>[uid]

\* The keys AuthProvider keeps in localStorage.
StorageKeys == {"token", "user"}

\* The server with its registered users, no profile and no upload.
InitServer ==
    /\ users = { [id |-> u.id, email |-> EmailOf(u.id), role |-> u.role] : u \in Users }
    /\ nextUserId = Cardinality(Users) + 1
    /\ models = {}
    /\ model_images = {}
    /\ editor_uploads = {}
    /\ has_profile = {}
    /\ nextModelId = 1
    /\ nextImageId = 1
    /\ nextVideoId = 1
    /\ assets = {}
    /\ nextAsset = [u \in UserIds |-> 1]
    /\ inflight = [s \in Slots |-> Idle]
    /\ resp = Idle

\* The client before React has rendered anything: useState(null) twice.
InitAuthProvider ==
    /\ user = {}
    /\ token = {}
    /\ mounted = FALSE
    /\ requested = "/"
    /\ location = "/"
    /\ page = "none"

Init ==
    /\ InitServer
    /\ InitAuthProvider
    /\ localStorage = [k \in StorageKeys |-> {}]

\* --------------------------------------------------------- middleware
\* verifyToken calling next() without jwt.verify.
verifyToken_NoVerify(tok) ==
    IF tok \in {"none", "malformed"} THEN 401 ELSE 0

\* verifyToken: 401 without a Bearer token, 403 for a token that fails
\* jwt.verify, 0 when next() is called.
verifyToken(tok) ==
    IF tok \in {"none", "malformed"} THEN 401 ELSE IF tok = "bad" THEN 403 ELSE 0

\* restrictTo deciding on the role field of the request body.
restrictTo_BodyRole(roles, r) == IF r.bodyRole \in roles THEN 0 ELSE 403

\* restrictTo(...roles): 403 unless roles.includes(req.user.role).
restrictTo(roles, r) == IF r.role \in roles THEN 0 ELSE 403

\* The response of the last step is on the wire; the server goes on.
Sent == resp.kind = "idle"

\* The slot a new request is processed in.
FreeSlot == CHOOSE s \in Slots : inflight[s].kind = "idle" /\
                \A t \in Slots : inflight[t].kind = "idle" => s <= t
HasFreeSlot == Sent /\ { s \in Slots : inflight[s].kind = "idle" } # {}

\* res.status(code).json(...): the request leaves the server.
Answer(s, r, code) ==
    /\ resp' = [r EXCEPT !.status = code, !.pc = "done"]
    /\ inflight' = [inflight EXCEPT ![s] = Idle]
    /\ UNCHANGED browser

\* A request answered before its handler reaches an await.
AnswerAtOnce(r, code) ==
    /\ resp' = [r EXCEPT !.status = code, !.pc = "done"]
    /\ UNCHANGED <<inflight, browser>>

\* The handler moves to its next await.
Goto(s, r) ==
    /\ inflight' = [inflight EXCEPT ![s] = r]
    /\ resp' = Idle
    /\ UNCHANGED browser

\* The async handler rejects outside any try block or inside its catch
\* block: Express 4 sends no response for it (status 0).
NoAnswer(s, r) == Answer(s, r, 0)

\* The database as a transaction's first SELECT sees it.
Tables == [models |-> models, images |-> model_images, profiles |-> has_profile]

\* ------------------------------------------------- POST /api/models
CreateProfileRoles == {"model", "photographer"}

\* The validation without the gallery minimum.
CreateProfileValidation_NoMinimum(r) ==
    IF r.main = {} THEN 400
    ELSE IF ~r.fieldsOk THEN 400
    ELSE 0

\* The validation of the handler: 400 or 0 (passed).
CreateProfileValidation(r) ==
    IF r.main = {} THEN 400
    ELSE IF r.role \in {"model", "photographer"}
            /\ Cardinality(r.gallery) < GalleryMin THEN 400
    ELSE IF ~r.fieldsOk THEN 400
    ELSE 0

\* fileUploader.fields([...]) stores mainImage, sampleVideo and galleryImages
\* in the object store before the handler runs.
CreateProfileFiles(r, nMain, nVideo, g) ==
    LET next == nextAsset[r.user]
        Names(from, n) == { <<r.user, k>> : k \in from .. from + n - 1 }
    IN  [r EXCEPT
           !.main = { FileUrl(n, "image") : n \in Names(next, nMain) },
           !.video = { FileUrl(n, "video") : n \in Names(next + nMain, nVideo) },
           !.gallery = { FileUrl(n, "image") :
                         n \in Names(next + nMain + nVideo, g) }]

\* The number of files uploaded so far.
RECURSIVE UploadedBy(_)
UploadedBy(us) ==
    IF us = {} THEN 0
    ELSE LET u == CHOOSE x \in us : TRUE
         IN  (nextAsset[u] - 1) + UploadedBy(us \ {u})

CanUpload(n) == UploadedBy(UserIds) + n <= MaxAssets

\* The object store and the name counter after multer stored n files.
StoreFiles(r, n) ==
    /\ assets' = assets \cup { AssetOfUrl(u) : u \in r.main \cup r.video \cup r.gallery }
    /\ nextAsset' = [nextAsset EXCEPT ![r.user] = @ + n]

FilesOf(r) == r.main \cup r.video \cup r.gallery

\* The request arrives: verifyToken, restrictTo, multer, validation.  More
\* than maxCount gallery files make multer fail (MulterError, answered 400 by
\* the global error handler) after it removed what it had stored.
CreateProfile_Arrive(in) ==
    LET r0 == Req("createProfile", in.tok, in.bodyRole, {}, {}, {}, in.fieldsOk, 0)
        r == CreateProfileFiles(r0, in.main, in.video, in.gallery)
        n == in.main + in.video + in.gallery
    IN  /\ HasFreeSlot
        /\ UNCHANGED db
        /\ IF verifyToken(in.tok) # 0
           THEN AnswerAtOnce(r0, verifyToken(in.tok)) /\ UNCHANGED <<assets, nextAsset>>
           ELSE IF restrictTo(CreateProfileRoles, r0) # 0
           THEN AnswerAtOnce(r0, 403) /\ UNCHANGED <<assets, nextAsset>>
           ELSE IF in.gallery > GalleryMax
           THEN AnswerAtOnce(r0, 400) /\ UNCHANGED <<assets, nextAsset>>
           ELSE /\ CanUpload(n)
                /\ StoreFiles(r, n)
                /\ IF CreateProfileValidation(r) # 0
                   THEN AnswerAtOnce(r, CreateProfileValidation(r))
                   ELSE Goto(FreeSlot, [r EXCEPT !.pc = "transaction"])

\* INSERT INTO models (..., image, sample_video_url, user_id)
ModelRow(r, id) ==
    [id |-> id, user_id |-> r.user, image |-> r.main, sample_video_url |-> r.video]

\* galleryImageFiles.map(file => [modelId, file.path]), in file order.
GalleryRows(modelId, urls, firstId) ==
    IF urls = {} THEN {}
    ELSE LET low == CHOOSE n \in { u.name[2] : u \in urls } :
                        \A m \in { u.name[2] : u \in urls } : n <= m
         IN  { [id |-> firstId + (u.name[2] - low), model_id |-> modelId,
                image_url |-> u] : u \in urls }

\* The statements of the try block that ran before `failAt` rejected, as
\* writes of the open transaction.
CreateProfileWrites(r, failAt) ==
    [NoTx EXCEPT
       !.models = IF failAt \in {"insertModel"} THEN {}
                  ELSE {ModelRow(r, nextModelId)},
       !.images = IF failAt \in {"insertModel", "insertImages"} THEN {}
                  ELSE GalleryRows(nextModelId, r.gallery, nextImageId),
       !.profiles = IF failAt \in {"insertModel", "insertImages", "updateUsers"}
                    THEN {} ELSE {r.user}]

\* connection.commit(): the writes of the transaction become visible.
CommitModels(tx) == models \cup tx.models
CommitImages(tx) ==
    { i \in model_images : i.id \notin tx.delImages } \cup tx.images
CommitProfiles(tx) == has_profile \cup tx.profiles
CommitVideos(tx) == { v \in editor_uploads : v.id \notin tx.delVideos }

\* What is visible of the transaction's writes once the try block is left.
CreateProfileVisible(tx, failAt) == IF failAt = "none" THEN tx ELSE NoTx

CreateProfileFailures ==
    {"none", "getConnection", "insertModel", "insertImages", "updateUsers", "commit"}

\* getConnection (outside the try block), beginTransaction, the three writes
\* and commit.  The writes of an open transaction are visible to no other
\* connection, so the awaits between them are no interleaving points.
CreateProfile_Transaction(s, failAt) ==
    LET r == [inflight[s] EXCEPT !.pre = Tables, !.failed = failAt]
        tx == CreateProfileWrites(r, failAt)
        seen == CreateProfileVisible(tx, failAt)
    IN  /\ r.kind = "createProfile" /\ r.pc = "transaction" /\ Sent
        /\ UNCHANGED <<users, nextUserId, editor_uploads, nextVideoId, assets, nextAsset>>
        /\ models' = CommitModels(seen)
        /\ model_images' = CommitImages(seen)
        /\ has_profile' = CommitProfiles(seen)
        /\ nextModelId' = nextModelId + Cardinality(tx.models)
        /\ nextImageId' = nextImageId + Cardinality(tx.images)
        /\ CASE failAt = "none" ->
                  Answer(s, Committed(Connect([r EXCEPT !.modelId = nextModelId])), 201)
             [] failAt = "getConnection" -> NoAnswer(s, r)
             [] OTHER -> Goto(s, Connect([r EXCEPT !.pc = "catch", !.tx = tx]))

\* What the catch block of POST /api/models destroys, when nothing rejects.
CreateProfileCleanup(r, store) ==
    DestroyAll(DestroyAll(DestroyAll(store, r.main, "image"), r.video, "video"),
               r.gallery, "image")

CatchOutcomes == {"ok", "rollbackRejects", "destroyRejects"}

\* catch: rollback, destroy the uploaded files, answer 500; finally: release.
\* A rollback or a destroy that rejects makes the handler reject without
\* answering.
CreateProfile_Catch(s, outcome) ==
    LET r == [inflight[s] EXCEPT !.tx = NoTx]
    IN  /\ r.kind = "createProfile" /\ r.pc = "catch" /\ Sent
        /\ UNCHANGED <<db, nextAsset>>
        /\ CASE outcome = "ok" ->
                  /\ assets' = CreateProfileCleanup(r, assets)
                  /\ Answer(s, Caught(r, "ok"), 500)
             [] OTHER ->
                  /\ UNCHANGED assets
                  /\ NoAnswer(s, Caught(r, IF outcome = "rollbackRejects"
                                           THEN "rollback" ELSE "ok"))

\* The requests the clients send to POST /api/models.
CreateProfileInputs ==
    LET In(tok, bodyRole, main, video, gallery, fieldsOk) ==
            [tok |-> tok, bodyRole |-> bodyRole, main |-> main, video |-> video,
             gallery |-> gallery, fieldsOk |-> fieldsOk]
    IN  { In("u1", "recruiter", 1, 0, 4, TRUE),
          In("u2", "photographer", 1, 1, 8, TRUE),
          In("u2", "photographer", 1, 0, 4, TRUE),
          In("u2", "recruiter", 1, 0, 3, TRUE),
          In("u2", "photographer", 0, 0, 4, TRUE),
          In("u2", "photographer", 1, 0, 4, FALSE),
          In("u2", "photographer", 1, 0, 9, TRUE),
          In("u3", "editor", 1, 0, 4, TRUE),
          In("u4", "model", 1, 0, 4, TRUE),
          In("none", "model", 1, 0, 4, TRUE),
          In("bad", "model", 1, 0, 4, TRUE) }

\* catch (error) { await connection.rollback(); res.status(code).json(...) }
\* of a handler in slot s: with outcome "rollback" the rollback rejects, the
\* handler rejects and no response is sent.
Catch(s, r, outcome, code) ==
    Answer(s, Caught(r, outcome), IF outcome = "rollback" THEN 0 ELSE code)

\* What an await of a try block does: it resolves ("ok"), it rejects and the
\* catch block answers ("fail"), or it rejects and the rollback of the catch
\* block rejects too ("rollback").
AwaitOutcomes == {"ok", "fail", "rollback"}

\* ------------------------------------ POST /api/models/my-profile/gallery
\* SELECT id FROM models WHERE user_id = ? : the rows of the caller, of which
\* the handlers use modelRows[0], the row with the lowest id.
ModelRowsOf(uid) == { m \in models : m.user_id = uid }

FirstRow(rows) == CHOOSE m \in rows : \A o \in rows : m.id <= o.id

\* SELECT COUNT(*) FROM model_images WHERE model_id = ?
ImageCount(modelId) == Cardinality({ i \in model_images : i.model_id = modelId })

\* The limit check forgetting the files of the request.
OverLimit_ExistingOnly(existingCount, n) == existingCount > GalleryMax

\* existingCount + req.files.length > 8
OverLimit(existingCount, n) == existingCount + n > GalleryMax

\* verifyToken, then fileUploader.array('galleryImages', 8) stores the files,
\* then the handler runs up to its first await.
GalleryUpload_Arrive(in) ==
    LET r0 == Req("galleryUpload", in.tok, "none", {}, {}, {}, TRUE, 0)
        r == CreateProfileFiles(r0, 0, 0, in.n)
    IN  /\ HasFreeSlot
        /\ UNCHANGED db
        /\ IF verifyToken(in.tok) # 0
           THEN AnswerAtOnce(r0, verifyToken(in.tok)) /\ UNCHANGED <<assets, nextAsset>>
           ELSE IF in.n > GalleryMax
           THEN AnswerAtOnce(r0, 400) /\ UNCHANGED <<assets, nextAsset>>
           ELSE /\ CanUpload(in.n)
                /\ StoreFiles(r, in.n)
                /\ IF in.n = 0
                   THEN AnswerAtOnce(r, 400)
                   ELSE Goto(FreeSlot, [r EXCEPT !.pc = "read"])

ReadOutcomes == {"ok", "getConnection", "query", "rollback"}

\* getConnection, beginTransaction, SELECT the model, SELECT COUNT(*), the
\* limit check and its cleanup.  Both SELECTs read the snapshot of the
\* transaction's first read.  Every throw is caught: rollback, 500, release.
\* With outcome "rollback" the rollback of the catch block rejects.
GalleryUpload_Read(s, outcome) ==
    LET r == inflight[s]
        c == Connect(r)
        rows == ModelRowsOf(r.user)
        modelId == FirstRow(rows).id
        n == Cardinality(r.gallery)
    IN  /\ r.kind = "galleryUpload" /\ r.pc = "read" /\ Sent
        /\ UNCHANGED <<db, nextAsset>>
        /\ CASE outcome = "getConnection" ->
                  UNCHANGED assets /\ NoAnswer(s, [r EXCEPT !.failed = outcome])
             [] outcome = "query" ->
                  UNCHANGED assets /\ Catch(s, [c EXCEPT !.failed = outcome], "fail", 500)
             [] OTHER ->
                  IF rows = {}
                  THEN /\ UNCHANGED assets
                       /\ Catch(s, [c EXCEPT !.failed = "noProfile"], outcome, 500)
                  ELSE IF OverLimit(ImageCount(modelId), n)
                  THEN /\ assets' = DestroyAll(assets, r.gallery, "image")
                       /\ Catch(s, [c EXCEPT !.failed = "limit", !.modelId = modelId,
                                             !.count = ImageCount(modelId)], outcome, 500)
                  ELSE /\ UNCHANGED assets
                       /\ Goto(s, [c EXCEPT !.pc = "insert", !.modelId = modelId,
                                            !.count = ImageCount(modelId)])

\* INSERT INTO model_images, commit, 201; a rejection is caught: rollback, 500.
GalleryUpload_Insert(s, outcome) ==
    LET r == inflight[s]
        tx == [NoTx EXCEPT !.images = GalleryRows(r.modelId, r.gallery, nextImageId)]
    IN  /\ r.kind = "galleryUpload" /\ r.pc = "insert" /\ Sent
        /\ UNCHANGED <<users, nextUserId, models, editor_uploads, has_profile,
                       nextModelId, nextVideoId, assets, nextAsset>>
        /\ IF outcome = "ok"
           THEN /\ model_images' = CommitImages(tx)
                /\ nextImageId' = nextImageId + Cardinality(r.gallery)
                /\ Answer(s, Committed(r), 201)
           ELSE /\ UNCHANGED <<model_images, nextImageId>>
                /\ Catch(s, [r EXCEPT !.failed = "insert"], outcome, 500)

GalleryUploadInputs ==
    { [tok |-> "u1", n |-> 3], [tok |-> "u1", n |-> 0], [tok |-> "u1", n |-> 9],
      [tok |-> "u2", n |-> 4], [tok |-> "u4", n |-> 8], [tok |-> "none", n |-> 1] }

\* catch (error) { await connection.rollback(); res.status(code).json(...) }
\* of a handler that has not awaited anything else since it arrived: a
\* rollback that rejects makes the handler reject, and no response is sent.
CatchAtOnce(r, outcome, code) ==
    AnswerAtOnce(Caught(r, outcome), IF outcome = "rollback" THEN 0 ELSE code)

\* ----------------------- DELETE /api/models/my-profile/gallery/:imageId
\* verifyToken; getConnection, beginTransaction, SELECT id, image FROM models,
\* SELECT image_url FROM model_images WHERE id = ? AND model_id = ?, and the
\* main-image check.  Every throw is caught: rollback, 400, release.  With
\* outcome "rollback" the rollback of the catch block rejects.
GalleryDelete_Read(tok, imageId, outcome) ==
    LET r == Req("galleryDelete", tok, "none", {}, {}, {}, TRUE, imageId)
        c == Connect(r)
        rows == ModelRowsOf(r.user)
        model == FirstRow(rows)
        imageRows == { i \in model_images : i.id = imageId /\ i.model_id = model.id }
        url == { i.image_url : i \in imageRows }
    IN  /\ HasFreeSlot
        /\ UNCHANGED <<db, assets, nextAsset>>
        /\ IF verifyToken(tok) # 0 THEN AnswerAtOnce(r, verifyToken(tok))
           ELSE CASE outcome = "getConnection" ->
                       AnswerAtOnce([r EXCEPT !.failed = outcome], 0)
                  [] outcome = "query" ->
                       CatchAtOnce([c EXCEPT !.failed = outcome], "fail", 400)
                  [] OTHER ->
                       IF rows = {}
                       THEN CatchAtOnce([c EXCEPT !.failed = "noProfile"], outcome, 400)
                       ELSE IF imageRows = {}
                       THEN CatchAtOnce([c EXCEPT !.failed = "notFound"], outcome, 400)
                       ELSE IF model.image = url
                       THEN CatchAtOnce([c EXCEPT !.failed = "mainImage",
                                                  !.target = url], outcome, 400)
                       ELSE Goto(FreeSlot, [c EXCEPT !.pc = "destroy", !.target = url,
                                                     !.modelId = model.id])

\* const publicId = getPublicIdFromUrl(url);
\* if (publicId) await cloudinary.uploader.destroy(publicId)
GalleryDelete_Destroy(s, outcome) ==
    LET r == inflight[s]
        url == CHOOSE u \in r.target : TRUE
        publicId == getPublicIdFromUrl(url)
    IN  /\ r.kind = "galleryDelete" /\ r.pc = "destroy" /\ Sent
        /\ UNCHANGED <<db, nextAsset>>
        /\ IF publicId = NullId
           THEN UNCHANGED assets /\ Goto(s, [r EXCEPT !.pc = "delete"])
           ELSE IF outcome = "ok"
           THEN /\ assets' = Destroy(assets, publicId, "image")
                /\ Goto(s, [r EXCEPT !.pc = "delete"])
           ELSE /\ UNCHANGED assets
                /\ Catch(s, [r EXCEPT !.failed = "destroy"], outcome, 400)

\* DELETE FROM model_images WHERE id = ?, commit, 200; a rejection is caught.
GalleryDelete_Delete(s, outcome) ==
    LET r == inflight[s]
        tx == [NoTx EXCEPT !.delImages = {r.arg}]
    IN  /\ r.kind = "galleryDelete" /\ r.pc = "delete" /\ Sent
        /\ UNCHANGED <<users, nextUserId, models, editor_uploads, has_profile,
                       nextModelId, nextImageId, nextVideoId, assets, nextAsset>>
        /\ IF outcome = "ok"
           THEN model_images' = CommitImages(tx) /\ Answer(s, Committed(r), 200)
           ELSE /\ UNCHANGED model_images
                /\ Catch(s, [r EXCEPT !.failed = "delete"], outcome, 400)

\* The first gallery row of each model.
LowestImages ==
    { j \in model_images : \A k \in model_images : k.model_id = j.model_id => j.id <= k.id }

\* The requests the clients send: the caller's first gallery row, the first
\* row of another model or an id no row has, a caller without a profile, a
\* request without a token or with a token that does not verify, and a
\* connection that cannot be obtained.
GalleryDeleteInputs ==
    LET In(tok, id, outcome) == [tok |-> tok, id |-> id, outcome |-> outcome]
        ids == { i.id : i \in LowestImages } \cup {nextImageId}
    IN  { In("u1", id, o) : id \in ids, o \in {"ok", "rollback"} }
        \cup { In("u3", id, "ok") : id \in {nextImageId - 1} }
        \cup { In("none", 1, "ok"), In("bad", 1, "ok"),
               In("u1", 1, "getConnection"), In("u1", 1, "query") }

\* -------------------------------- PUT /api/models/my-profile/main-image
\* The gallery lookup without its model_id condition.
GalleryRowsWithUrl_AnyModel(modelId, url) ==
    { i \in model_images : {i.image_url} = url }

\* SELECT id FROM model_images WHERE model_id = ? AND image_url = ?
GalleryRowsWithUrl(modelId, url) ==
    { i \in model_images : i.model_id = modelId /\ {i.image_url} = url }

\* verifyToken; the imageUrl check, SELECT id FROM models, SELECT id FROM
\* model_images WHERE model_id = ? AND image_url = ?.  `url` is a set: empty
\* when the body has no imageUrl.
SetMainImage_Read(tok, url, ok) ==
    LET r == [Req("setMainImage", tok, "none", {}, {}, {}, TRUE, 0)
                  EXCEPT !.target = url]
        rows == ModelRowsOf(r.user)
        modelId == FirstRow(rows).id
        imageRows == GalleryRowsWithUrl(modelId, url)
    IN  /\ HasFreeSlot
        /\ UNCHANGED <<db, assets, nextAsset>>
        /\ IF verifyToken(tok) # 0 THEN AnswerAtOnce(r, verifyToken(tok))
           ELSE IF url = {} THEN AnswerAtOnce(r, 400)
           ELSE IF ~ok THEN AnswerAtOnce([r EXCEPT !.failed = "query"], 500)
           ELSE IF rows = {} THEN AnswerAtOnce(r, 404)
           ELSE IF imageRows = {} THEN AnswerAtOnce(r, 403)
           ELSE Goto(FreeSlot, [r EXCEPT !.pc = "update", !.modelId = modelId])

\* UPDATE models SET image = ? WHERE id = ?
SetMainImage_Update(s, ok) ==
    LET r == inflight[s]
    IN  /\ r.kind = "setMainImage" /\ r.pc = "update" /\ Sent
        /\ UNCHANGED <<users, nextUserId, model_images, editor_uploads, has_profile,
                       nextModelId, nextImageId, nextVideoId, assets, nextAsset>>
        /\ IF ok
           THEN /\ models' = { IF m.id = r.modelId THEN [m EXCEPT !.image = r.target]
                               ELSE m : m \in models }
                /\ Answer(s, r, 200)
           ELSE UNCHANGED models /\ Answer(s, [r EXCEPT !.failed = "update"], 500)

\* The requests the clients send: the URL of the first gallery row of a
\* model (the caller's or another's), no imageUrl, a caller without a
\* profile, a request without a token, a query that fails.
SetMainImageInputs ==
    LET In(tok, url, ok) == [tok |-> tok, url |-> url, ok |-> ok]
        urls == { {i.image_url} : i \in LowestImages }
    IN  { In("u1", url, TRUE) : url \in urls \cup {{}} }
        \cup { In("u3", url, TRUE) : url \in urls }
        \cup { In("none", {}, TRUE), In("u1", {FileUrl(<<1, 1>>, "image")}, FALSE) }

\* ------------------------------------------- POST /api/editor/upload
\* if (!title || !description || !videoFile): 400 or 0 (passed).
EditorUploadValidation(r) ==
    IF ~r.fieldsOk \/ r.video = {} THEN 400 ELSE 0

\* verifyToken, restrictTo('editor'), fileUploader.single('video'), the
\* validation and its cleanup.
EditorUpload_Arrive(in) ==
    LET r0 == Req("editorUpload", in.tok, "none", {}, {}, {}, in.fieldsOk, 0)
        r == CreateProfileFiles(r0, 0, in.video, 0)
    IN  /\ HasFreeSlot
        /\ UNCHANGED db
        /\ IF verifyToken(in.tok) # 0
           THEN AnswerAtOnce(r0, verifyToken(in.tok)) /\ UNCHANGED <<assets, nextAsset>>
           ELSE IF restrictTo({"editor"}, r0) # 0
           THEN AnswerAtOnce(r0, 403) /\ UNCHANGED <<assets, nextAsset>>
           ELSE /\ CanUpload(in.video)
                /\ UploadedBy({ u.id : u \in { x \in Users : x.role = "editor" } })
                      + in.video <= MaxVideos
                /\ nextAsset' = [nextAsset EXCEPT ![r.user] = @ + in.video]
                /\ IF EditorUploadValidation(r) # 0
                   THEN /\ assets' = DestroyAll(assets \cup { AssetOfUrl(u) : u \in r.video },
                                                r.video, "video")
                        /\ AnswerAtOnce(r, 400)
                   ELSE /\ assets' = assets \cup { AssetOfUrl(u) : u \in r.video }
                        /\ Goto(FreeSlot, [r EXCEPT !.pc = "insert"])

\* INSERT INTO editor_uploads (user_id, title, description, video_url)
EditorUpload_Insert(s, ok) ==
    LET r == inflight[s]
    IN  /\ r.kind = "editorUpload" /\ r.pc = "insert" /\ Sent
        /\ UNCHANGED <<users, nextUserId, models, model_images, has_profile,
                       nextModelId, nextImageId, assets, nextAsset>>
        /\ IF ok
           THEN /\ editor_uploads' = editor_uploads \cup
                     { [id |-> nextVideoId, user_id |-> r.user, video_url |-> u] :
                       u \in r.video }
                /\ nextVideoId' = nextVideoId + 1
                /\ Answer(s, [r EXCEPT !.arg = nextVideoId], 201)
           ELSE /\ UNCHANGED <<editor_uploads, nextVideoId>>
                /\ Answer(s, [r EXCEPT !.failed = "insert"], 500)

EditorUploadInputs ==
    LET In(tok, video, fieldsOk) == [tok |-> tok, video |-> video, fieldsOk |-> fieldsOk]
    IN  { In("u3", 1, TRUE), In("u3", 1, FALSE), In("u3", 0, TRUE),
          In("u6", 1, TRUE), In("u1", 1, TRUE), In("none", 1, TRUE) }

\* ------------------------------------ DELETE /api/editor/videos/:videoId
\* verifyToken, restrictTo('editor'); getConnection, beginTransaction,
\* SELECT video_url FROM editor_uploads WHERE id = ? AND user_id = ?; no row:
\* 404 from inside the try block.
EditorDelete_Read(tok, videoId, outcome) ==
    LET r == Req("editorDelete", tok, "none", {}, {}, {}, TRUE, videoId)
        c == Connect(r)
        videos == { v \in editor_uploads : v.id = videoId /\ v.user_id = r.user }
    IN  /\ HasFreeSlot
        /\ UNCHANGED <<db, assets, nextAsset>>
        /\ IF verifyToken(tok) # 0 THEN AnswerAtOnce(r, verifyToken(tok))
           ELSE IF restrictTo({"editor"}, r) # 0 THEN AnswerAtOnce(r, 403)
           ELSE CASE outcome = "getConnection" ->
                       AnswerAtOnce([r EXCEPT !.failed = outcome], 0)
                  [] outcome = "query" ->
                       CatchAtOnce([c EXCEPT !.failed = outcome], "fail", 500)
                  [] OTHER ->
                       IF videos = {}
                       THEN AnswerAtOnce(Returned([c EXCEPT !.failed = "notFound"]), 404)
                       ELSE Goto(FreeSlot,
                                 [c EXCEPT !.pc = "destroy",
                                           !.target = { v.video_url : v \in videos }])

\* if (publicId) await cloudinary.uploader.destroy(publicId, {resource_type: 'video'})
EditorDelete_Destroy(s, outcome) ==
    LET r == inflight[s]
        url == CHOOSE u \in r.target : TRUE
        publicId == getPublicIdFromUrl(url)
    IN  /\ r.kind = "editorDelete" /\ r.pc = "destroy" /\ Sent
        /\ UNCHANGED <<db, nextAsset>>
        /\ IF publicId = NullId
           THEN UNCHANGED assets /\ Goto(s, [r EXCEPT !.pc = "delete"])
           ELSE IF outcome = "ok"
           THEN /\ assets' = Destroy(assets, publicId, "video")
                /\ Goto(s, [r EXCEPT !.pc = "delete"])
           ELSE /\ UNCHANGED assets
                /\ Catch(s, [r EXCEPT !.failed = "destroy"], outcome, 500)

\* DELETE FROM editor_uploads WHERE id = ?, commit, 200; a rejection is
\* caught: rollback, 500.
EditorDelete_Delete(s, outcome) ==
    LET r == inflight[s]
        tx == [NoTx EXCEPT !.delVideos = {r.arg}]
    IN  /\ r.kind = "editorDelete" /\ r.pc = "delete" /\ Sent
        /\ UNCHANGED <<users, nextUserId, models, model_images, has_profile,
                       nextModelId, nextImageId, nextVideoId, assets, nextAsset>>
        /\ IF outcome = "ok"
           THEN editor_uploads' = CommitVideos(tx) /\ Answer(s, Committed(r), 200)
           ELSE /\ UNCHANGED editor_uploads
                /\ Catch(s, [r EXCEPT !.failed = "delete"], outcome, 500)

EditorDeleteInputs ==
    LET In(tok, id, outcome) == [tok |-> tok, id |-> id, outcome |-> outcome]
    IN  { In(tok, id, "ok") : tok \in {"u3", "u6"},
                              id \in { v.id : v \in editor_uploads } \cup {nextVideoId} }
        \cup { In("u1", 1, "ok"), In("none", 1, "ok"), In("u3", 1, "getConnection") }

\* ------------------------------ GET /api/models, GET /api/editors/videos
\* The catalogue opened to the creative roles too.
CatalogueRoles_WithModels == {"recruiter", "admin", "model"}

CatalogueRoles == {"recruiter", "admin"}

\* SELECT m.*, u.role, u.email FROM models m JOIN users u ON m.user_id = u.id
ModelsCatalogue == { m.id : m \in { x \in models : x.user_id \in UserIds } }

\* SELECT e.id, ... FROM editor_uploads e JOIN users u ON e.user_id = u.id
VideosCatalogue == { v.id : v \in { x \in editor_uploads : x.user_id \in UserIds } }

\* verifyToken, restrictTo('recruiter', 'admin'), the query, res.json(rows).
\* `data` holds the rows the response carries.
GetCatalogue(kind, tok, ok) ==
    LET r == Req(kind, tok, "none", {}, {}, {}, TRUE, 0)
        rows == IF kind = "getModels" THEN ModelsCatalogue ELSE VideosCatalogue
    IN  /\ Sent
        /\ UNCHANGED <<db, assets, nextAsset>>
        /\ IF verifyToken(tok) # 0 THEN AnswerAtOnce(r, verifyToken(tok))
           ELSE IF restrictTo(CatalogueRoles, r) # 0 THEN AnswerAtOnce(r, 403)
           ELSE IF ~ok THEN AnswerAtOnce([r EXCEPT !.failed = "query"], 500)
           ELSE AnswerAtOnce([r EXCEPT !.data = rows], 200)

GetModels(tok, ok) == GetCatalogue("getModels", tok, ok)

GetVideos(tok, ok) == GetCatalogue("getVideos", tok, ok)

\* The requests the clients send: every kind of Authorization header, and a
\* query that fails for a recruiter.
CatalogueInputs ==
    { [tok |-> tok, ok |-> TRUE] : tok \in Tokens } \cup { [tok |-> "u4", ok |-> FALSE] }

\* ------------------------------------------- POST /api/auth/register
\* const validRoles = ['model', 'photographer', 'editor', 'recruiter', 'admin']
validRoles == {"model", "photographer", "editor", "recruiter", "admin"}

\* The validation letting any non-empty role through.
RegisterValidation_AnyRole(r) ==
    IF ~r.fieldsOk \/ r.target = {""} \/ r.bodyRole = "" THEN 400 ELSE 0

\* if (!name || !email || !password || !role || !validRoles.includes(role)):
\* 400 or 0 (passed).  fieldsOk: name and password are present; an absent
\* email or role is the empty string.
RegisterValidation(r) ==
    IF ~r.fieldsOk \/ r.target = {""} \/ r.bodyRole = "" \/ r.bodyRole \notin validRoles
    THEN 400 ELSE 0

\* The request arrives (no middleware) and the handler runs to its first await.
Register_Arrive(in) ==
    LET r == [Req("register", "none", in.role, {}, {}, {}, in.fieldsOk, 0)
                  EXCEPT !.target = {in.email}]
    IN  /\ HasFreeSlot
        /\ UNCHANGED <<db, assets, nextAsset>>
        /\ IF RegisterValidation(r) # 0
           THEN AnswerAtOnce(r, 400)
           ELSE Goto(FreeSlot, [r EXCEPT !.pc = "select"])

\* SELECT email FROM users WHERE email = ?
UsersWithEmail(email) == { u \in users : {u.email} = email }

\* The SELECT and the 409 check; then bcrypt.hash.  A rejection is caught: 500.
Register_Select(s, ok) ==
    LET r == inflight[s]
    IN  /\ r.kind = "register" /\ r.pc = "select" /\ Sent
        /\ UNCHANGED <<db, assets, nextAsset>>
        /\ IF ~ok THEN Answer(s, [r EXCEPT !.failed = "query"], 500)
           ELSE IF UsersWithEmail(r.target) # {}
           THEN Answer(s, [r EXCEPT !.count = Cardinality(UsersWithEmail(r.target))], 409)
           ELSE Goto(s, [r EXCEPT !.pc = "insert"])

\* INSERT INTO users (name, email, password, role): the handler inserts
\* whatever the SELECT saw.  The repository does not define the table: with a
\* unique index on email the INSERT of a second row for an email rejects
\* (caught: 500), without one it succeeds; `ok` false is any rejection.
\* `count` records the rows holding the email when the INSERT ran.
Register_Insert(s, ok) ==
    LET r == [inflight[s] EXCEPT !.count = Cardinality(UsersWithEmail(inflight[s].target))]
    IN  /\ r.kind = "register" /\ r.pc = "insert" /\ Sent
        /\ UNCHANGED <<models, model_images, editor_uploads, has_profile, nextModelId,
                       nextImageId, nextVideoId, assets, nextAsset>>
        /\ IF ok
           THEN /\ users' = users \cup
                     { [id |-> nextUserId, email |-> e, role |-> r.bodyRole] : e \in r.target }
                /\ nextUserId' = nextUserId + 1
                /\ Answer(s, [r EXCEPT !.arg = nextUserId], 201)
           ELSE /\ UNCHANGED <<users, nextUserId>>
                /\ Answer(s, [r EXCEPT !.failed = "insert"], 500)

\* The registrations the clients send: a fresh email or the email of a
\* registered user, a role of the list or another one, fields left out.
RegisterInputs ==
    LET In(email, role, fieldsOk) == [email |-> email, role |-> role, fieldsOk |-> fieldsOk]
    IN  { In(e, r, TRUE) : e \in {"e1", "new1", "new2"}, r \in {"model", "admin"} }
        \cup { In("new1", "superuser", TRUE), In("new1", "", TRUE),
               In("", "model", TRUE), In("new1", "model", FALSE) }

\* ------------------------------------------------- the client: App.js
\* <Navigate to=... replace /> and <Outlet /> as results of a route element.
Outlet == "outlet"

\* ProtectedRoute redirecting only the unauthenticated.
ProtectedRoute_NoRoleCheck(allowedRoles, isAuthenticated, u) ==
    IF ~isAuthenticated THEN "/login" ELSE Outlet

\* ProtectedRoute({ allowedRoles }): `allowedRoles` is the set holding the
\* array of roles, or the empty set when the prop is not given; `u` is the
\* set holding the user object.
ProtectedRoute(allowedRoles, isAuthenticated, u) ==
    IF ~isAuthenticated THEN "/login"
    ELSE IF allowedRoles # {} /\ \A roles \in allowedRoles : \A x \in u : x.role \notin roles
    THEN "/"
    ELSE Outlet

\* UploadController: switch (user?.role); the default case redirects.
UploadController(u) ==
    IF \E x \in u : x.role = "model" THEN "ModelUpload"
    ELSE IF \E x \in u : x.role = "photographer" THEN "PhotographerUpload"
    ELSE IF \E x \in u : x.role = "editor" THEN "EditorUpload"
    ELSE "/profile"

\* The paths a visitor opens: the routes of <Routes> and one that matches
\* only path="*".
Paths == {"/", "/login", "/profile", "/upload", "/catalogue", "/admin/dashboard",
          "/nowhere"}

\* The allowedRoles of the ProtectedRoute wrapping a path; no entry for the
\* public routes.
AllowedRoles(path) ==
    CASE path = "/profile" -> {}
      [] path = "/upload" -> {{"model", "photographer", "editor"}}
      [] path = "/catalogue" -> {{"recruiter", "admin"}}
      [] path = "/admin/dashboard" -> {{"admin"}}

IsProtected(path) == path \in {"/profile", "/upload", "/catalogue", "/admin/dashboard"}

\* The element <Routes> yields for a path: a page, or the path of a Navigate.
RouteElement(path, isAuthenticated, u) ==
    IF IsProtected(path) /\ ProtectedRoute(AllowedRoles(path), isAuthenticated, u) # Outlet
    THEN ProtectedRoute(AllowedRoles(path), isAuthenticated, u)
    ELSE CASE path = "/" -> "Home"
           [] path = "/login" -> "Login"
           [] path = "/profile" -> "Profile"
           [] path = "/upload" -> UploadController(u)
           [] path = "/catalogue" -> "Catalogue"
           [] path = "/admin/dashboard" -> "AdminDashboard"
           [] OTHER -> "NotFound"

\* Rendering a path with the session {isAuthenticated, user}: every Navigate
\* replaces the location and the routes render again.
RECURSIVE Render(_, _, _)
Render(path, isAuthenticated, u) ==
    LET el == RouteElement(path, isAuthenticated, u)
    IN  IF el \in Paths THEN Render(el, isAuthenticated, u)
        ELSE [location |-> path, page |-> el]

\* ------------------------------------------ the client: AuthContext.js
\* JSON.stringify(userData) for the user object of the login response, and
\* JSON.parse of such a string.
JSONstringify(u) == <<"{", "id", u.id, "role", u.role, "}">>

JSONparse(str) == [id |-> str[3], role |-> str[5]]

\* POST /api/auth/login answering 200: { token, user: { id, role, ... } }.
LoginResponse(uid) ==
    [token |-> CHOOSE t \in Tokens : TokenUser(t) = uid,
     user |-> [id |-> uid, role |-> RoleOf(uid)]]

\* The session test of the initial load looking at the token only.
SessionStored_TokenOnly(storedToken, storedUser) == storedToken # {}

\* if (storedToken && storedUser)
SessionStored(storedToken, storedUser) == storedToken # {} /\ storedUser # {}

\* isAuthenticated: !!user
isAuthenticated(u) == u # {}

\* React renders the routes again with the state the step has set.
Rerender(path, u) ==
    /\ requested' = path
    /\ location' = Render(path, isAuthenticated(u), u).location
    /\ page' = Render(path, isAuthenticated(u), u).page

\* The server is not involved in a step of the client.
ServerUnchanged == UNCHANGED <<db, assets, nextAsset, inflight, resp>>

\* The browser opens (or reloads) the application at a path: both useState
\* start at null and the first render happens before any effect.
Open(path) ==
    /\ user' = {}
    /\ token' = {}
    /\ mounted' = FALSE
    /\ Rerender(path, {})
    /\ UNCHANGED localStorage
    /\ ServerUnchanged

\* useEffect(() => {...}, []): the initial load of the stored session.
LoadSession ==
    LET storedToken == localStorage["token"]
        storedUser == localStorage["user"]
        u == IF SessionStored(storedToken, storedUser)
             THEN { JSONparse(str) : str \in storedUser } ELSE user
    IN  /\ page # "none" /\ ~mounted
        /\ mounted' = TRUE
        /\ user' = u
        /\ token' = IF SessionStored(storedToken, storedUser) THEN storedToken ELSE token
        /\ Rerender(location, u)
        /\ UNCHANGED localStorage
        /\ ServerUnchanged

\* login(userData, userToken), called by the Login page with the body of a
\* successful login response.
login(userData, userToken) ==
    /\ mounted
    /\ localStorage' = [localStorage EXCEPT !["token"] = {userToken},
                                            !["user"] = {JSONstringify(userData)}]
    /\ token' = {userToken}
    /\ user' = {userData}
    /\ Rerender(location, {userData})
    /\ UNCHANGED mounted
    /\ ServerUnchanged

\* logout()
logout ==
    /\ mounted
    /\ localStorage' = [localStorage EXCEPT !["token"] = {}, !["user"] = {}]
    /\ token' = {}
    /\ user' = {}
    /\ Rerender(location, {})
    /\ UNCHANGED mounted
    /\ ServerUnchanged

\* The visitor follows a link or types a path of the application.
Navigate(path) ==
    /\ mounted
    /\ Rerender(path, user)
    /\ UNCHANGED <<user, token, localStorage, mounted>>
    /\ ServerUnchanged

\* What localStorage holds when the application is opened: each key absent
\* or as an earlier login has written it.
StoredSessions ==
    { [k \in StorageKeys |-> IF k = "token" THEN t ELSE u] :
        t \in {{}} \cup { {LoginResponse(uid).token} : uid \in UserIds },
        u \in {{}} \cup { {JSONstringify(LoginResponse(uid).user)} : uid \in UserIds } }

\* ------------------------------------------------------ specification
AllIdle == \A s \in Slots : inflight[s].kind = "idle"

\* res.status(...).json(...) has written the response to the socket.
SendResponse ==
    /\ ~Sent
    /\ resp' = Idle
    /\ UNCHANGED <<db, assets, nextAsset, inflight, browser>>

Arrive ==
    \/ \E in \in CreateProfileInputs : CreateProfile_Arrive(in)
    \/ \E in \in GalleryUploadInputs : GalleryUpload_Arrive(in)
    \/ \E in \in GalleryDeleteInputs : GalleryDelete_Read(in.tok, in.id, in.outcome)
    \/ \E in \in SetMainImageInputs : SetMainImage_Read(in.tok, in.url, in.ok)
    \/ \E in \in EditorUploadInputs : EditorUpload_Arrive(in)
    \/ \E in \in EditorDeleteInputs : EditorDelete_Read(in.tok, in.id, in.outcome)
    \/ \E in \in CatalogueInputs : GetModels(in.tok, in.ok)
    \/ \E in \in CatalogueInputs : GetVideos(in.tok, in.ok)

Step ==
    \/ \E s \in Slots, f \in CreateProfileFailures : CreateProfile_Transaction(s, f)
    \/ \E s \in Slots, o \in CatchOutcomes : CreateProfile_Catch(s, o)
    \/ \E s \in Slots, o \in ReadOutcomes : GalleryUpload_Read(s, o)
    \/ \E s \in Slots, o \in AwaitOutcomes : GalleryUpload_Insert(s, o)
    \/ \E s \in Slots, o \in AwaitOutcomes : GalleryDelete_Destroy(s, o)
    \/ \E s \in Slots, o \in AwaitOutcomes : GalleryDelete_Delete(s, o)
    \/ \E s \in Slots, ok \in BOOLEAN : SetMainImage_Update(s, ok)
    \/ \E s \in Slots, ok \in BOOLEAN : EditorUpload_Insert(s, ok)
    \/ \E s \in Slots, o \in AwaitOutcomes : EditorDelete_Destroy(s, o)
    \/ \E s \in Slots, o \in AwaitOutcomes : EditorDelete_Delete(s, o)
    \/ SendResponse

\* Requests processed one at a time, each to completion.
Next ==
    \/ \E in \in CreateProfileInputs : AllIdle /\ CreateProfile_Arrive(in)
    \/ \E in \in GalleryUploadInputs : AllIdle /\ GalleryUpload_Arrive(in)
    \/ \E in \in GalleryDeleteInputs :
          AllIdle /\ GalleryDelete_Read(in.tok, in.id, in.outcome)
    \/ \E in \in SetMainImageInputs :
          AllIdle /\ SetMainImage_Read(in.tok, in.url, in.ok)
    \/ \E in \in EditorUploadInputs : AllIdle /\ EditorUpload_Arrive(in)
    \/ \E in \in EditorDeleteInputs :
          AllIdle /\ EditorDelete_Read(in.tok, in.id, in.outcome)
    \/ \E in \in CatalogueInputs : AllIdle /\ GetModels(in.tok, in.ok)
    \/ \E in \in CatalogueInputs : AllIdle /\ GetVideos(in.tok, in.ok)
    \/ Step

Spec == Init /\ [][Next]_vars

\* The event loop resumes every handler whose await has settled and writes
\* every response that was handed to the socket.
SpecLive == Init /\ [][Next]_vars /\ WF_vars(Step)

\* The requests of the users who own a profile or a video, without the
\* failures of the database and of the object store.
ArriveConc ==
    \/ \E in \in { i \in CreateProfileInputs : i.tok = "u1" } : CreateProfile_Arrive(in)
    \/ \E in \in { i \in GalleryUploadInputs : i.tok = "u1" /\ i.n = 3 } :
          GalleryUpload_Arrive(in)
    \/ \E in \in { i \in GalleryDeleteInputs : i.tok = "u1" /\ i.outcome = "ok" } :
          GalleryDelete_Read(in.tok, in.id, in.outcome)
    \/ \E in \in { i \in SetMainImageInputs : i.tok = "u1" /\ i.ok } :
          SetMainImage_Read(in.tok, in.url, in.ok)

StepConc ==
    \/ \E s \in Slots : CreateProfile_Transaction(s, "none")
    \/ \E s \in Slots : GalleryUpload_Read(s, "ok")
    \/ \E s \in Slots : GalleryUpload_Insert(s, "ok")
    \/ \E s \in Slots : GalleryDelete_Destroy(s, "ok")
    \/ \E s \in Slots : GalleryDelete_Delete(s, "ok")
    \/ \E s \in Slots : SetMainImage_Update(s, TRUE)
    \/ SendResponse

\* Requests processed concurrently, interleaved at their awaits.
NextConc == ArriveConc \/ StepConc

SpecConc == Init /\ [][NextConc]_vars

\* Registrations processed concurrently, interleaved at their awaits.
NextAuth ==
    \/ \E in \in RegisterInputs :
          nextUserId <= Cardinality(Users) + MaxRegistered /\ Register_Arrive(in)
    \/ \E s \in Slots, ok \in BOOLEAN : Register_Select(s, ok)
    \/ \E s \in Slots, ok \in BOOLEAN : Register_Insert(s, ok)
    \/ SendResponse

SpecAuth == Init /\ [][NextAuth]_vars

\* A profile of user 1 as POST /api/models creates it from one main image and
\* four gallery images, after PUT .../main-image made the first gallery row
\* the main image: the model's image is in its gallery.
InitRace ==
    LET url(k) == FileUrl(<<1, k>>, "image")
    IN  /\ users = { [id |-> u.id, email |-> EmailOf(u.id), role |-> u.role] : u \in Users }
        /\ nextUserId = Cardinality(Users) + 1
        /\ models = { [id |-> 1, user_id |-> 1, image |-> {url(2)},
                       sample_video_url |-> {}] }
        /\ model_images = { [id |-> k - 1, model_id |-> 1, image_url |-> url(k)] :
                            k \in 2 .. 5 }
        /\ editor_uploads = {}
        /\ has_profile = {1}
        /\ nextModelId = 2
        /\ nextImageId = 5
        /\ nextVideoId = 1
        /\ assets = { AssetOfUrl(url(k)) : k \in 1 .. 5 }
        /\ nextAsset = [u \in UserIds |-> IF u = 1 THEN 6 ELSE 1]
        /\ inflight = [s \in Slots |-> Idle]
        /\ resp = Idle
        /\ InitAuthProvider
        /\ localStorage = [k \in StorageKeys |-> {}]

\* The owner's requests on its gallery: any row as the new main image, any
\* row to delete; no failure of the database or of the object store.
NextRace ==
    \/ \E i \in model_images : SetMainImage_Read("u1", {i.image_url}, TRUE)
    \/ \E i \in model_images : GalleryDelete_Read("u1", i.id, "ok")
    \/ \E s \in Slots : SetMainImage_Update(s, TRUE)
    \/ \E s \in Slots : GalleryDelete_Destroy(s, "ok")
    \/ \E s \in Slots : GalleryDelete_Delete(s, "ok")
    \/ SendResponse

\* PUT .../main-image and DELETE .../gallery/:imageId of one owner, processed
\* concurrently and interleaved at their awaits.
SpecRace == InitRace /\ [][NextRace]_vars

InitClient ==
    /\ InitServer
    /\ InitAuthProvider
    /\ localStorage \in StoredSessions

NextClient ==
    \/ \E path \in Paths : Open(path)
    \/ LoadSession
    \/ \E uid \in UserIds : login(LoginResponse(uid).user, LoginResponse(uid).token)
    \/ logout
    \/ \E path \in Paths : Navigate(path)

\* The single-page client on its own.
SpecClient == InitClient /\ [][NextClient]_vars

\* ------------------------------------------------------------- claims
Answered(kind) == resp.kind = kind /\ resp.pc = "done"

ImagesOf(modelId) == { i \in model_images : i.model_id = modelId }

\* C1: every models row has a model_images row of its own whose image_url is
\* the model's image field.
C1_MainImageInGallery ==
    \A m \in models :
        \E i \in model_images : i.model_id = m.id /\ {i.image_url} = m.image

\* C2: each user id is the user_id of at most one models row.
C2_OneModelPerUser ==
    \A m1 \in models : \A m2 \in models : m1.user_id = m2.user_id => m1.id = m2.id

\* C3: with requests processed one at a time no model has more than 8
\* model_images rows, and a gallery upload whose files would take the count
\* above 8 is not answered 201 and inserts none of its files.
C3_GalleryAtMostEight ==
    /\ \A m \in models : Cardinality(ImagesOf(m.id)) <= 8
    /\ (Answered("galleryUpload") /\ resp.modelId # 0
           /\ resp.count + Cardinality(resp.gallery) > 8)
       => /\ resp.status # 201
          /\ \A i \in model_images : i.image_url \notin resp.gallery

C3_Witness ==
    /\ Answered("galleryUpload") /\ resp.failed = "limit"
    /\ resp.count = 7 /\ Cardinality(ImagesOf(resp.modelId)) = 7

\* C4: when the concurrent gallery uploads of a user have all finished, the
\* model has at most 8 model_images rows.
C4_ConcurrentUploadsAtMostEight ==
    AllIdle => \A m \in models : Cardinality(ImagesOf(m.id)) <= 8

\* C5: a POST /api/models answered 201 leaves the new model with 4 to 8
\* model_images rows; one that reached the handler with fewer than 4 gallery
\* files is answered 400 and no row holds any of its files.
C5_CreatedGalleryFourToEight ==
    Answered("createProfile") =>
      /\ resp.status = 201 =>
           /\ \E m \in models : m.id = resp.modelId
           /\ Cardinality(ImagesOf(resp.modelId)) >= 4
           /\ Cardinality(ImagesOf(resp.modelId)) <= 8
      /\ (resp.role \in {"model", "photographer"} /\ Cardinality(resp.gallery) < 4) =>
           /\ resp.status = 400
           /\ \A m \in models : m.image = {} \/ m.image # resp.main
           /\ \A i \in model_images : i.image_url \notin resp.gallery

C5_Witness ==
    /\ Answered("createProfile") /\ resp.status = 201
    /\ Cardinality(ImagesOf(resp.modelId)) = 8

\* C6: when POST /api/models ends without a 201 after its files were stored,
\* none of the assets it uploaded exists in the object store.
C6_NoOrphanAfterFailure ==
    (Answered("createProfile") /\ resp.status # 201) =>
        \A u \in FilesOf(resp) : AssetOfUrl(u) \notin assets

\* C7: when one of the three writes of POST /api/models fails the request is
\* answered 500 and models, model_images and users are as before it; when it
\* is answered 201 the three writes are visible.
C7_AllOrNothing ==
    Answered("createProfile") =>
      /\ resp.failed \in {"insertModel", "insertImages", "updateUsers"} =>
           resp.status = 500 /\ Tables = resp.pre
      /\ resp.status = 201 =>
           /\ ModelRow(resp, resp.modelId) \in models
           /\ \A u \in resp.gallery :
                \E i \in ImagesOf(resp.modelId) : i.image_url = u
           /\ resp.user \in has_profile

\* C8: when a delete endpoint answers 200, the row is gone and so is the
\* object-store asset the row's URL referred to.
C8_DeleteRemovesRowAndAsset ==
    /\ (Answered("galleryDelete") /\ resp.status = 200) =>
          /\ \A i \in model_images : i.id # resp.arg
          /\ \A u \in resp.target : AssetOfUrl(u) \notin assets
    /\ (Answered("editorDelete") /\ resp.status = 200) =>
          /\ \A v \in editor_uploads : v.id # resp.arg
          /\ \A u \in resp.target : AssetOfUrl(u) \notin assets

\* C9: the catalogue endpoints answer 200 and return rows only to a valid
\* token whose role is recruiter or admin; a valid token with another role is
\* answered 403 with no row.
C9_CatalogueForRecruitersOnly ==
    (Answered("getModels") \/ Answered("getVideos")) =>
      /\ (resp.status = 200 \/ resp.data # {}) =>
           verifyToken(resp.tok) = 0 /\ resp.role \in {"recruiter", "admin"}
      /\ (verifyToken(resp.tok) = 0 /\ resp.role \notin {"recruiter", "admin"}) =>
           resp.status = 403 /\ resp.data = {}

C9_Witness ==
    /\ Answered("getModels") /\ resp.status = 200 /\ resp.role = "recruiter"
    /\ resp.data # {}

\* C10: POST /api/models creates a profile only for a token role of model or
\* photographer, and acceptance and the gallery minimum follow the token's
\* role whatever role the request body names.
C10_RoleFromToken ==
    Answered("createProfile") =>
      /\ resp.status = 201 => resp.role \in {"model", "photographer"}
      /\ (verifyToken(resp.tok) = 0 /\ resp.role \notin {"model", "photographer"}) =>
           resp.status = 403
      /\ (resp.role \in {"model", "photographer"}) => resp.status # 403
      /\ (resp.role \in {"model", "photographer"} /\ resp.main # {}
            /\ Cardinality(resp.gallery) < 4) => resp.status = 400

C10_Witness ==
    /\ Answered("createProfile") /\ resp.status = 201
    /\ resp.role = "model" /\ resp.bodyRole = "recruiter"

\* The routes registered with verifyToken as their first middleware.
GuardedKinds ==
    {"createProfile", "galleryUpload", "galleryDelete", "setMainImage",
     "editorUpload", "editorDelete", "getModels", "getVideos"}

\* C11: a request to a route behind verifyToken whose Authorization header is
\* missing or malformed is answered 401, one whose token fails verification is
\* answered 403; neither reaches a handler, returns data or changes the
\* database or the object store.
C11_NoHandlerWithoutToken ==
    [][ /\ \A s \in Slots :
             inflight'[s].kind \in GuardedKinds
                => inflight'[s].tok \notin {"none", "malformed", "bad"}
        /\ (resp'.kind \in GuardedKinds /\ resp'.pc = "done"
              /\ resp'.tok \in {"none", "malformed", "bad"})
           => /\ resp'.status = IF resp'.tok = "bad" THEN 403 ELSE 401
              /\ resp'.data = {}
              /\ UNCHANGED <<db, assets, nextAsset>> ]_vars

C11_Witness ==
    /\ Answered("galleryDelete") /\ resp.tok = "bad" /\ resp.status = 403
    /\ model_images # {}

\* C12: PUT /api/models/my-profile/main-image changes the models table only by
\* setting the image of the caller's model to the given imageUrl, and only
\* when a model_images row of that model has it as image_url; without an
\* imageUrl it answers 400, without a profile 404, with a URL that is in no
\* gallery row of the caller 403, and every answer but 200 leaves the models
\* table unchanged.
C12_MainImageFromOwnGallery ==
    [][ (resp'.kind = "setMainImage" /\ resp'.pc = "done") =>
          LET r == resp'
              own == { m.id : m \in ModelRowsOf(r.user) }
              inOwn == { i \in model_images :
                           i.model_id \in own /\ {i.image_url} = r.target }
          IN  /\ models' # models =>
                   /\ r.status = 200
                   /\ r.modelId \in own
                   /\ \E i \in inOwn : i.model_id = r.modelId
                   /\ models' = { IF m.id = r.modelId
                                  THEN [m EXCEPT !.image = r.target] ELSE m :
                                  m \in models }
              /\ r.status # 200 => models' = models
              /\ (r.user # 0 /\ r.failed = "none") =>
                   /\ r.target = {} => r.status = 400
                   /\ (r.target # {} /\ own = {}) => r.status = 404
                   /\ (r.target # {} /\ own # {} /\ inOwn = {}) => r.status = 403
      ]_vars

C12_Witness ==
    /\ Answered("setMainImage") /\ resp.status = 403
    /\ \E i \in model_images : {i.image_url} = resp.target
    /\ ModelRowsOf(resp.user) # {}

\* C13: DELETE /api/models/my-profile/gallery/:imageId removes no gallery row
\* whose image_url is the image field of its model; a request for such a row
\* is answered 400 and leaves model_images, the object store and models
\* unchanged.
C13_MainImageRowKept ==
    [][ /\ \A i \in model_images \ model_images' :
             \A m \in models : m.id = i.model_id => m.image # {i.image_url}
        /\ (resp'.kind = "galleryDelete" /\ resp'.pc = "done"
              /\ resp'.failed = "mainImage")
           => /\ resp'.status = 400
              /\ UNCHANGED <<models, model_images, assets>> ]_vars

\* The gallery row or the video a delete request names belongs to another
\* user than the caller.
NotOwnedByCaller(r) ==
    \/ /\ r.kind = "galleryDelete"
       /\ \E i \in model_images :
            /\ i.id = r.arg
            /\ \A m \in models : m.id = i.model_id => m.user_id # r.user
    \/ /\ r.kind = "editorDelete"
       /\ \E v \in editor_uploads : v.id = r.arg /\ v.user_id # r.user

\* C14: a delete endpoint removes only rows of the caller; a delete request
\* with a valid token that names a gallery row of another user's model or a
\* video uploaded by another user is answered with an error status and leaves
\* every table and the object store unchanged.
C14_DeleteOnlyOwn ==
    [][ /\ \A i \in model_images \ model_images' :
             \E m \in models : m.id = i.model_id /\ m.user_id = resp'.user
        /\ \A v \in editor_uploads \ editor_uploads' : v.user_id = resp'.user
        /\ (resp'.pc = "done" /\ resp'.user # 0 /\ NotOwnedByCaller(resp'))
           => /\ resp'.status \in {400, 403, 404, 500}
              /\ UNCHANGED <<db, assets>> ]_vars

\* C15: POST /api/editor/upload answers 201 and inserts its row only when
\* title, description and the video file are all present; an editor's request
\* that fails this validation is answered 400, inserts no row, and the video
\* it uploaded no longer exists in the object store.
C15_EditorUploadValidated ==
    Answered("editorUpload") =>
      /\ resp.status = 201 =>
           /\ resp.fieldsOk /\ resp.video # {}
           /\ \E v \in editor_uploads : v.id = resp.arg /\ {v.video_url} = resp.video
      /\ (resp.role = "editor" /\ (~resp.fieldsOk \/ resp.video = {})) =>
           /\ resp.status = 400
           /\ \A v \in editor_uploads : v.video_url \notin resp.video
           /\ \A u \in resp.video : AssetOfUrl(u) \notin assets

\* C16: when POST /api/models/my-profile/gallery is rejected because the
\* existing count plus the uploaded count exceeds 8, no model_images row holds
\* a file of the request and none of its files exists in the object store.
C16_LimitRejectionCleansUp ==
    (Answered("galleryUpload") /\ resp.failed = "limit") =>
      /\ resp.status # 201
      /\ \A i \in model_images : i.image_url \notin resp.gallery
      /\ \A u \in resp.gallery : AssetOfUrl(u) \notin assets

\* C17: no two users rows share an email, and a registration for an email
\* that is registered when the handler's last statement runs is answered 409
\* and inserts nothing, however the registrations interleave.
C17_EmailUnique ==
    /\ \A u1 \in users : \A u2 \in users : u1.email = u2.email => u1.id = u2.id
    /\ (Answered("register") /\ resp.count > 0) =>
         /\ resp.status = 409
         /\ \A u \in users : u.id # resp.arg \/ resp.arg = 0

\* C18: POST /api/auth/register adds a users row only with a 201, for a
\* request that has name, email, password and a role among model,
\* photographer, editor, recruiter and admin; any other request is answered
\* 400 with the users table unchanged, and every users row has a role of that
\* list.
C18_RegisterValidated ==
    [][ LET list == {"model", "photographer", "editor", "recruiter", "admin"}
            r == resp'
            complete == r.fieldsOk /\ r.target # {""} /\ r.bodyRole \in list
        IN  /\ \A u \in users' : u.role \in list
            /\ users' # users =>
                 /\ r.kind = "register" /\ r.status = 201 /\ complete
                 /\ users' = users \cup
                      { [id |-> r.arg, email |-> e, role |-> r.bodyRole] : e \in r.target }
            /\ (r.kind = "register" /\ r.pc = "done" /\ ~complete) =>
                 r.status = 400 /\ users' = users ]_vars

C18_Witness ==
    /\ Answered("register") /\ resp.status = 400
    /\ resp.bodyRole = "superuser" /\ resp.fieldsOk /\ resp.target = {"new1"}
    /\ \E u \in users : u.role = "admin" /\ u.email = "new2"

\* C19: once the initial load has run, and after every login and logout, user
\* and token are both null or both set; when set they are what localStorage
\* holds under 'user' and 'token', when null localStorage holds no complete
\* session; login stores what it was given, logout leaves both keys absent, a
\* load that finds only one of the two keys leaves the session
\* unauthenticated; and isAuthenticated is true exactly when user is set.
C19_SessionConsistent ==
    [][ /\ mounted' =>
             /\ (user' = {}) <=> (token' = {})
             /\ user' # {} =>
                  /\ localStorage'["token"] = token'
                  /\ { JSONparse(str) : str \in localStorage'["user"] } = user'
             /\ user' = {} =>
                  ~(localStorage'["token"] # {} /\ localStorage'["user"] # {})
             /\ isAuthenticated(user') <=> (user' # {} /\ token' # {})
        /\ (mounted /\ mounted' /\ user # {} /\ user' = {}) =>
             \A k \in StorageKeys : localStorage'[k] = {}
        /\ (~mounted /\ mounted'
              /\ (localStorage["token"] = {}) # (localStorage["user"] = {})) =>
             ~isAuthenticated(user') /\ token' = {} ]_vars

\* C19 as written: once the initial load has run, user and token are both
\* null or both set and equal what localStorage holds under 'user' and
\* 'token', a null standing for an absent key.
C19_MatchesStorage ==
    mounted =>
      /\ (user = {}) <=> (token = {})
      /\ localStorage["token"] = token
      /\ { JSONparse(str) : str \in localStorage["user"] } = user

C19_Witness ==
    /\ mounted /\ user = {} /\ token = {}
    /\ localStorage["token"] # {} /\ localStorage["user"] = {}

\* C20: a protected route renders its page only for an authenticated session
\* whose role is among the route's allowedRoles; asked for a protected path,
\* an unauthenticated visitor ends on /login and an authenticated user of
\* another role on /; an upload page is rendered only for model, photographer
\* and editor, each getting its own.
C20_ProtectedRoutes ==
    page # "none" =>
      LET roles == { x.role : x \in user }
          allowed == CASE requested = "/upload" -> {"model", "photographer", "editor"}
                       [] requested = "/catalogue" -> {"recruiter", "admin"}
                       [] requested = "/admin/dashboard" -> {"admin"}
                       [] OTHER -> roles
          protected == {"/profile", "/upload", "/catalogue", "/admin/dashboard"}
      IN  /\ (requested \in protected /\ ~isAuthenticated(user)) =>
               location = "/login" /\ page = "Login"
          /\ (requested \in protected /\ isAuthenticated(user) /\ roles \cap allowed = {}) =>
               location = "/" /\ page = "Home"
          /\ page = "Profile" => isAuthenticated(user)
          /\ page = "ModelUpload" => isAuthenticated(user) /\ roles = {"model"}
          /\ page = "PhotographerUpload" => isAuthenticated(user) /\ roles = {"photographer"}
          /\ page = "EditorUpload" => isAuthenticated(user) /\ roles = {"editor"}
          /\ page = "Catalogue" => isAuthenticated(user) /\ roles \subseteq {"recruiter", "admin"}
          /\ page = "AdminDashboard" => isAuthenticated(user) /\ roles = {"admin"}

C20_Witness ==
    /\ requested = "/catalogue" /\ location = "/" /\ page = "Home"
    /\ \E x \in user : x.role = "model"

\* C21: when PUT /api/models/my-profile/main-image for X and DELETE
\* /api/models/my-profile/gallery/:imageId for X's row run concurrently, they
\* are never both answered 200: a main-image request answered 200 finds X's
\* row still in the gallery, and a delete answered 200 has not removed the
\* row of the model's image.
C21_NoRaceLosesMainImage ==
    /\ Answered("setMainImage") /\ resp.status = 200
          => GalleryRowsWithUrl(resp.modelId, resp.target) # {}
    /\ Answered("galleryDelete") /\ resp.status = 200
          => \A m \in models : m.id = resp.modelId => m.image # resp.target

\* C22: every request that reaches a route handler eventually receives
\* exactly one HTTP response: every request that is finished carries the
\* status of a response, and every request in flight is finished eventually.
C22_ExactlyOneResponse ==
    /\ [](resp.pc = "done" => resp.status # 0)
    /\ \A s \in Slots : (inflight[s].kind # "idle") ~> (inflight[s].kind = "idle")

\* C23: when a handler is finished, every pooled connection it acquired has
\* been released exactly once, and the transaction it began on the
\* connection was committed or rolled back before the release.
C23_ConnectionsReleased ==
    resp.pc = "done" =>
        /\ resp.conn.released = resp.conn.acquired
        /\ resp.conn.tx \in {"none", "committed", "rolledBack"}

C25_FailedUploadLeavesNothing ==
    resp.pc = "done" /\ resp.kind = "galleryUpload"
    /\ resp.status \in {400, 500} /\ resp.failed # "limit"
    => /\ \A i \in model_images : i.image_url \notin resp.gallery
       /\ \A u \in resp.gallery : AssetOfUrl(u) \notin assets

====
